---- MODULE Spec2Model ----
(***************************************************************************)
(* Open-addressed, double-hashed hash table of Hash_Tables_In_C.           *)
(*                                                                         *)
(* src/hash_table.c holds ht_new_item, ht_new, ht_del_item and             *)
(* ht_del_hash_table; the hash functions, ht_insert, ht_search, ht_delete  *)
(* and the resizing code are the C listings of src/STRUCTURE.md.  Where    *)
(* STRUCTURE.md gives a function in several successive listings, the       *)
(* model follows the listings applied in document order (a later listing   *)
(* replaces the lines it shows, "// ..." keeps the earlier ones).          *)
(*                                                                         *)
(* Spec drives a table through ht_insert, ht_search, ht_delete and         *)
(* ht_del_hash_table; FnSpec follows the pure functions ht_hash,           *)
(* ht_get_hash and next_prime on inputs drawn from bounded sets.           *)
(***************************************************************************)
EXTENDS Integers, Sequences, FiniteSets, TLC

\* ------------------------------------------------------------------------
\* Program constants.  STRUCTURE.md uses HT_PRIME_1 and HT_PRIME_2 without
\* defining them; 151 and 163 are the values of its worked examples.
\* ------------------------------------------------------------------------
HT_PRIME_1 == 151
HT_PRIME_2 == 163
HT_INITIAL_BASE_SIZE == 50

\* ------------------------------------------------------------------------
\* Bounds of the model.  The driver runs one of three workloads:
\*   "mixed": two colliding keys inserted, updated, deleted and searched in
\*            any order while bulk keys are loaded;
\*   "bulk" : bulk keys are loaded and absent keys are deleted;
\*   "churn": one key is inserted and deleted over and over.
\* ------------------------------------------------------------------------
\* number of bulk keys the driver may insert (in a fixed order)
NumFill == 54
\* number of bulk keys of the mixed workload
NumFillMixed == 39
\* largest difference between the occupied slots and the count field that
\* the driver may build up by deleting absent keys (bulk)
MaxDrift == 30
\* largest number of tombstones the driver may create (mixed, churn)
MaxTomb == 1
MaxChurn == 53

\* ------------------------------------------------------------------------
\* Inputs: keys are ASCII strings (sequences of character codes)
\* ------------------------------------------------------------------------
\* "cat" and "ig" have the same first hash in a table of 53 buckets
Cat == <<99, 97, 116>>
Ig == <<105, 103>>
FreeKeys == {Cat, Ig}
\* "rot" has the same first hash, and its second hash is 52 = 53 - 1
Rot == <<114, 111, 116>>
\* "Ea" .. "Ez", "Ga" .. "Gz", "Ha" ..: no bulk key has the second hash
\* m - 1 in a table of m = 53, 101 or 211 buckets ("rot" covers that case)
FillBlock == <<69, 71, 72>>
FillKey(i) == <<FillBlock[((i - 1) \div 26) + 1], 97 + ((i - 1) % 26)>>
FillKeys == {FillKey(i) : i \in 1..NumFill}
AllKeys == FreeKeys \cup FillKeys \cup {Rot}
Values == {"v1", "v2"}
Workloads == {"mixed", "bulk", "churn"}

\* C integer division truncates toward zero
CDiv(a, b) == IF a >= 0 THEN a \div b ELSE -((-a) \div b)

\* ------------------------------------------------------------------------
\* prime.c
\* ------------------------------------------------------------------------
\* variant: the loop stops one candidate early, at i < floor(sqrt(x))
RECURSIVE is_prime_loop_short(_, _)
is_prime_loop_short(x, i) ==
    IF i * i >= x THEN 1
    ELSE IF x % i = 0 THEN 0
    ELSE is_prime_loop_short(x, i + 2)

RECURSIVE is_prime_loop(_, _)
is_prime_loop(x, i) ==
    IF i * i > x THEN 1
    ELSE IF x % i = 0 THEN 0
    ELSE is_prime_loop(x, i + 2)

is_prime(x) ==
    IF x < 2 THEN -1
    ELSE IF x < 4 THEN 1
    ELSE IF x % 2 = 0 THEN 0
    ELSE is_prime_loop(x, 3)

\* variant: tries only the next number instead of scanning on
next_prime_once(x) == IF is_prime(x) # 1 THEN x + 1 ELSE x

RECURSIVE next_prime(_)
next_prime(x) == IF is_prime(x) # 1 THEN next_prime(x + 1) ELSE x

\* ------------------------------------------------------------------------
\* Hash functions
\* ------------------------------------------------------------------------
\* ht_hash computes in long (64 bits, two's complement) and calls the
\* floating-point pow of math.h.  Values that do not fit the integers of the
\* model are sequences of limbs of 15 bits, least significant limb first; a
\* long is a sequence of five limbs, the last one of 4 bits.
RECURSIVE pow(_, _)
pow(a, e) == IF e = 0 THEN 1 ELSE a * pow(a, e - 1)

\* C's % truncates toward zero: the result has the sign of the dividend
CRem(x, m) == IF x >= 0 THEN x % m ELSE -((-x) % m)

Limb == 32768

RECURSIVE Limbs(_)
Limbs(n) == IF n = 0 THEN <<>> ELSE <<n % Limb>> \o Limbs(n \div Limb)

\* ls * k + carry
RECURSIVE MulAdd(_, _, _)
MulAdd(ls, k, carry) ==
    IF ls = <<>> THEN Limbs(carry)
    ELSE LET v == Head(ls) * k + carry
         IN  <<v % Limb>> \o MulAdd(Tail(ls), k, v \div Limb)

\* x + y + carry of two limb sequences of the same length, the carry out
\* of the last limb appended
RECURSIVE AddLimbs(_, _, _)
AddLimbs(x, y, carry) ==
    IF x = <<>> THEN Limbs(carry)
    ELSE LET v == Head(x) + Head(y) + carry
         IN  <<v % Limb>> \o AddLimbs(Tail(x), Tail(y), v \div Limb)

\* the number of bits of a limb sequence whose last limb is not 0
BitLen(ls) ==
    IF ls = <<>> THEN 0
    ELSE 15 * (Len(ls) - 1)
           + (CHOOSE k \in 1..15 :
                 pow(2, k - 1) <= ls[Len(ls)] /\ ls[Len(ls)] < pow(2, k))

\* the low 64 bits of ls, as a long
Wrap64(ls) ==
    [i \in 1..5 |-> IF i > Len(ls) THEN 0
                    ELSE IF i = 5 THEN ls[i] % 16 ELSE ls[i]]

\* the exact value of a to the power e
RECURSIVE pow_limbs(_, _)
pow_limbs(a, e) ==
    IF e = 0 THEN <<1>> ELSE MulAdd(pow_limbs(a, e - 1), a, 0)

\* ls with its low drop bits cleared
ClearLow(ls, drop) ==
    [i \in 1..Len(ls) |->
        IF 15 * i <= drop THEN 0
        ELSE IF 15 * (i - 1) >= drop THEN ls[i]
        ELSE ls[i] - (ls[i] % pow(2, drop - 15 * (i - 1)))]

\* 2 to the power n, in as many limbs as ls has
PowerOfTwo(ls, n) ==
    [i \in 1..Len(ls) |->
        IF 15 * (i - 1) <= n /\ n < 15 * i THEN pow(2, n - 15 * (i - 1))
        ELSE 0]

\* pow(a, e) returns a double, which has 53 significant bits: a power of
\* more bits is rounded, and C leaves the accuracy of pow to the library,
\* so the result is the double below or the double above the exact power
pow_double(a, e) ==
    LET x    == pow_limbs(a, e)
        drop == BitLen(x) - 53
    IN  IF drop <= 0 \/ ClearLow(x, drop) = x THEN {x}
        ELSE {ClearLow(x, drop),
              AddLimbs(ClearLow(x, drop), PowerOfTwo(x, drop), 0)}

LONG_MIN == <<0, 0, 0, 0, 8>>
LONG_MAX == <<32767, 32767, 32767, 32767, 7>>

\* (long) pow(a, e): the conversion of a double of 2^63 or more is
\* undefined; it yields LONG_MIN (x86-64 cvttsd2si) or LONG_MAX (saturating
\* conversions, constant folding)
long_pow(a, e) ==
    UNION {IF BitLen(d) <= 63 THEN {Wrap64(d)} ELSE {LONG_MIN, LONG_MAX} :
              d \in pow_double(a, e)}

\* a small integer as a long
Long(n) ==
    IF n >= 0 THEN Wrap64(Limbs(n))
    ELSE LET b == Wrap64(Limbs((-n) - 1))
         IN  [i \in 1..5 |-> (IF i = 5 THEN 15 ELSE Limb - 1) - b[i]]

\* the value of a limb sequence modulo m
RECURSIVE ModLimbs(_, _)
ModLimbs(ls, m) ==
    IF ls = <<>> THEN 0 ELSE (Head(ls) + Limb * ModLimbs(Tail(ls), m)) % m

\* hash % m of a long hash: negative when the sign bit is set
LongRem(x, m) ==
    IF x[5] < 8 THEN ModLimbs(x, m)
    ELSE -((ModLimbs(<<0, 0, 0, 0, 16>>, m) + m - ModLimbs(x, m)) % m)

\* For e <= 3 and the primes and ASCII characters of this program,
\* a^e * c + hash is below 2^31: pow is exact and nothing overflows
ht_hash_exact(hash, a, e, c) ==
    e <= 3 /\ a < 200 /\ c < 128 /\ -1000000 < hash /\ hash < 1000000

\* hash += (long)pow(a, len_s - (i+1)) * s[i]; hash = hash % m;
\* the values hash can have after one iteration with the exponent e and the
\* character c.  Signed overflow of * and + wraps.
ht_hash_step(hash, a, e, c, m) ==
    IF ht_hash_exact(hash, a, e, c)
    THEN {CRem(hash + pow(a, e) * c, m)}
    ELSE {LongRem(Wrap64(AddLimbs(Wrap64(MulAdd(p, c, 0)), Long(hash), 0)),
                  m) : p \in long_pow(a, e)}

\* the loop of ht_hash for a string of at most four characters, as the keys
\* of the table workloads are: every iteration is exact (ht_hash_exact) and
\* is computed on the integers of the model.  FnSpec follows the loop for
\* longer strings, one ht_hash_step at a time.
RECURSIVE ht_hash_loop(_, _, _, _, _)
ht_hash_loop(s, a, m, i, hash) ==
    IF i >= Len(s) THEN hash
    ELSE ht_hash_loop(s, a, m, i + 1,
                      (hash + pow(a, Len(s) - (i + 1)) * s[i + 1]) % m)

ht_hash(s, a, m) == ht_hash_loop(s, a, m, 0, 0)

\* hash_a and hash_b of ht_get_hash: they depend on the key and the number
\* of buckets only
key_hashes(s, num_buckets) ==
    [hash_a |-> ht_hash(s, HT_PRIME_1, num_buckets),
     hash_b |-> ht_hash(s, HT_PRIME_2, num_buckets)]

\* return (hash_a + (attempt * (hash_b + 1))) % num_buckets;
probe_index(h, num_buckets, attempt) ==
    (h.hash_a + (attempt * (h.hash_b + 1))) % num_buckets

ht_get_hash(s, num_buckets, attempt) ==
    probe_index(key_hashes(s, num_buckets), num_buckets, attempt)

\* ------------------------------------------------------------------------
\* Items and tables
\* ------------------------------------------------------------------------
\* a NULL entry of the items array: the bucket is empty
NULL == [st |-> "NULL", key |-> <<>>, value |-> ""]
\* the global sentinel {NULL, NULL} that marks a deleted bucket
HT_DELETED_ITEM == [st |-> "DELETED", key |-> <<>>, value |-> ""]

ht_new_item(k, v) == [st |-> "ITEM", key |-> k, value |-> v]

\* variant: the number of buckets is the base size itself
ht_new_sized_raw(base_size) ==
    [base_size |-> base_size,
     size      |-> base_size,
     count     |-> 0,
     items     |-> [i \in 0..(base_size - 1) |-> NULL]]

ht_new_sized(base_size) ==
    LET size == next_prime(base_size)
    IN  [base_size |-> base_size,
         size      |-> size,
         count     |-> 0,
         items     |-> [i \in 0..(size - 1) |-> NULL]]

ht_new == ht_new_sized(HT_INITIAL_BASE_SIZE)

\* ht_del_item frees key, value and the item itself: for the static
\* sentinel free(&HT_DELETED_ITEM) is undefined behaviour
ht_del_item(item) == IF item = HT_DELETED_ITEM THEN "UB" ELSE "freed"

\* ht_del_hash_table: the outcome of ht_del_item for every non-NULL bucket
ht_del_hash_table(t) ==
    [i \in {j \in 0..(t.size - 1) : t.items[j] # NULL} |->
        ht_del_item(t.items[i])]

\* ------------------------------------------------------------------------
\* Outcome of a call: the table it leaves, whether it returned ("ok") or
\* never leaves its probe loop ("hang"), and whether it passed the static
\* sentinel to ht_del_item (ub)
\* ------------------------------------------------------------------------
Ok(t) == [t |-> t, st |-> "ok", ub |-> FALSE]
Hang(t) == [t |-> t, st |-> "hang", ub |-> FALSE]

\* if (item != &HT_DELETED_ITEM) { if (strcmp(item->key, key) == 0) ...
key_match(item, key) == item # HT_DELETED_ITEM /\ item.key = key

\* variant: the insert loop also stops at a deleted bucket
insert_stop_deleted(cur_item) ==
    cur_item # NULL /\ cur_item # HT_DELETED_ITEM

\* while (cur_item != NULL) of ht_insert
insert_continue(cur_item) == cur_item # NULL

\* variant: the search loop also stops at a deleted bucket
search_stop_deleted(item) == item # NULL /\ item # HT_DELETED_ITEM

\* while (item != NULL) of ht_search
search_continue(item) == item # NULL

\* variant: the matching bucket keeps its old item
insert_replace_keep(t, index, item) == t

\* ht_del_item(cur_item); ht->items[index] = item; return;
insert_replace(t, index, item) == [t EXCEPT !.items[index] = item]

\* ht->items[index] = item; ht->count++;
insert_place(t, index, item) ==
    [t EXCEPT !.items[index] = item, !.count = @ + 1]

\* variant: the matching bucket is not marked as deleted
delete_mark_skip(t, index) == t

\* ht_del_item(item); ht->items[index] = &HT_DELETED_ITEM;
delete_mark(t, index) == [t EXCEPT !.items[index] = HT_DELETED_ITEM]

\* variant: no request is below the minimum
resize_refused_never(base_size) == FALSE

\* if (base_size < HT_INITIAL_BASE_SIZE) { return; } of ht_resize
resize_refused(base_size) == base_size < HT_INITIAL_BASE_SIZE

\* The probe loops have no bound on the attempt.  The index of attempt
\* i + size equals the index of attempt i, and no loop ever stores NULL, so
\* a loop that has not stopped after the attempts 0 .. size-1 never stops.
\* Each loop calls ht_get_hash(key, size, i) once per attempt; ht_hash is a
\* pure function, so the loops below take the two hashes h of their key,
\* computed once, and index == ht_get_hash(key, size, i - 1) throughout.
RECURSIVE ht_insert_loop(_, _, _, _, _)
ht_insert_loop(t, item, h, index, i) ==
    LET cur_item == t.items[index]
    IN  IF ~insert_continue(cur_item) THEN Ok(insert_place(t, index, item))
        ELSE IF key_match(cur_item, item.key)
             THEN Ok(insert_replace(t, index, item))
        ELSE IF i >= t.size THEN Hang(t)
        ELSE ht_insert_loop(t, item, h, probe_index(h, t.size, i), i + 1)

RECURSIVE ht_insert(_, _, _)
RECURSIVE ht_resize(_, _)
RECURSIVE ht_resize_loop(_, _, _)

\* variant: resizing up without doubling the base size
ht_resize_up_same(t) == ht_resize(t, t.base_size)

ht_resize_up(t) == ht_resize(t, t.base_size * 2)

ht_resize_down(t) == ht_resize(t, t.base_size \div 2)

ht_insert(t, key, value) ==
    LET load == CDiv(t.count * 100, t.size)
        r    == IF load > 70 THEN ht_resize_up(t) ELSE Ok(t)
    IN  IF r.st # "ok" THEN r
        ELSE LET q == ht_insert_loop(r.t, ht_new_item(key, value),
                                     key_hashes(key, r.t.size),
                                     ht_get_hash(key, r.t.size, 0), 1)
             IN  [q EXCEPT !.ub = q.ub \/ r.ub]

\* for (int i = 0; i < ht->size; i++) ... ht_insert(new_ht, key, value)
ht_resize_loop(t, n, i) ==
    IF n.st # "ok" \/ i >= t.size THEN n
    ELSE LET item == t.items[i]
         IN  IF item # NULL /\ item # HT_DELETED_ITEM
             THEN LET q == ht_insert(n.t, item.key, item.value)
                  IN  ht_resize_loop(t, [q EXCEPT !.ub = q.ub \/ n.ub], i + 1)
             ELSE ht_resize_loop(t, n, i + 1)

ht_resize(t, base_size) ==
    IF resize_refused(base_size) THEN Ok(t)
    ELSE LET n      == ht_resize_loop(t, Ok(ht_new_sized(base_size)), 0)
             new_ht == n.t
             \* new_ht after the swap holds ht's old size and items
             old    == [new_ht EXCEPT !.size = t.size, !.items = t.items]
             freed  == ht_del_hash_table(old)
         IN  IF n.st # "ok" THEN Hang(t)
             ELSE [t  |-> [base_size |-> new_ht.base_size,
                           size      |-> new_ht.size,
                           count     |-> new_ht.count,
                           items     |-> new_ht.items],
                   st |-> "ok",
                   ub |-> n.ub \/ (\E i \in DOMAIN freed : freed[i] = "UB")]

\* the NULL pointer ht_search returns for "no value was found"
NotFound == "NULL"

RECURSIVE ht_search_loop(_, _, _, _, _)
ht_search_loop(t, key, h, index, i) ==
    LET item == t.items[index]
    IN  IF ~search_continue(item) THEN [st |-> "ok", value |-> NotFound]
        ELSE IF key_match(item, key) THEN [st |-> "ok", value |-> item.value]
        ELSE IF i >= t.size THEN [st |-> "hang", value |-> NotFound]
        ELSE ht_search_loop(t, key, h, probe_index(h, t.size, i), i + 1)

ht_search(t, key) ==
    ht_search_loop(t, key, key_hashes(key, t.size),
                   ht_get_hash(key, t.size, 0), 1)

RECURSIVE ht_delete_loop(_, _, _, _, _)
ht_delete_loop(t, key, h, index, i) ==
    LET item == t.items[index]
    IN  IF item = NULL THEN Ok([t EXCEPT !.count = @ - 1])
        ELSE LET t2 == IF key_match(item, key) THEN delete_mark(t, index)
                       ELSE t
             IN  IF i >= t.size THEN Hang(t2)
                 ELSE ht_delete_loop(t2, key, h,
                                     probe_index(h, t.size, i), i + 1)

\* variant: the load is checked on the count that the removal leaves
ht_delete_postcheck(t, key) ==
    LET q == ht_delete_loop(t, key, key_hashes(key, t.size),
                            ht_get_hash(key, t.size, 0), 1)
    IN  IF q.st # "ok" THEN q
        ELSE IF CDiv(q.t.count * 100, q.t.size) < 10
             THEN ht_resize_down(q.t)
        ELSE q

ht_delete(t, key) ==
    LET load == CDiv(t.count * 100, t.size)
        r    == IF load < 10 THEN ht_resize_down(t) ELSE Ok(t)
    IN  IF r.st # "ok" THEN r
        ELSE LET q == ht_delete_loop(r.t, key, key_hashes(key, r.t.size),
                                     ht_get_hash(key, r.t.size, 0), 1)
             IN  [q EXCEPT !.ub = q.ub \/ r.ub]

\* ------------------------------------------------------------------------
\* Observations of a table
\* ------------------------------------------------------------------------
Slots(t) == 0..(t.size - 1)
OccupiedSlots(t) == {i \in Slots(t) : t.items[i].st = "ITEM"}
DeletedSlots(t) == {i \in Slots(t) : t.items[i] = HT_DELETED_ITEM}
EmptySlots(t) == {i \in Slots(t) : t.items[i] = NULL}
KeysIn(t) == {t.items[i].key : i \in OccupiedSlots(t)}
Present(t, k) == k \in KeysIn(t)

\* ------------------------------------------------------------------------
\* State
\* ------------------------------------------------------------------------
VARIABLES
    ht,        \* the hash table record
    pc,        \* "ready", "freed" after ht_del_hash_table, or "hung" /
               \* "crashed" when a call did not return
    last,      \* the last call of the driver and what it observed
    workload,  \* the workload the driver runs
    call       \* FnSpec: the call of a pure function that is followed

vars == <<ht, pc, last, workload, call>>

\* no call of a pure function is followed
NoCall == [fn |-> "none"]

Init ==
    /\ ht = ht_new
    /\ pc = "ready"
    /\ last = [op |-> "new", key |-> <<>>, value |-> "", present |-> FALSE,
               pre_size |-> ht_new.size]
    /\ workload \in Workloads
    /\ call = NoCall

\* the outcomes of a call: a call that freed the static sentinel may abort
\* in free() or go on
Outcomes(r) ==
    IF r.st = "hang" THEN {"hung"}
    ELSE IF r.ub THEN {"ready", "crashed"}
    ELSE {"ready"}

\* the bulk keys are inserted in their fixed order, and never deleted; the
\* bulk workload also inserts the latest bulk key again
NextFill(t) ==
    LET n   == Cardinality(KeysIn(t) \cap FillKeys)
        max == CASE workload = "mixed" -> NumFillMixed
                 [] workload = "bulk"  -> NumFill
                 [] OTHER              -> 0
    IN  {FillKey(i) : i \in {j \in {n, n + 1} :
            /\ 1 <= j /\ j <= max
            /\ j = n => workload = "bulk"}}

\* the keys and values the driver inserts
InsertInput(k, v) ==
    \/ k \in NextFill(ht) /\ v = "v1"
    \/ k = Cat /\ workload # "bulk"
    \/ k = Ig /\ workload = "mixed"
    \/ k = Rot /\ workload = "churn"

\* the keys the driver deletes
DeleteInput(k) ==
    /\ \/ k = Cat /\ workload # "bulk"
       \/ k = Ig
       \/ k = Rot /\ workload = "churn"
    /\ IF Present(ht, k)
       THEN Cardinality(DeletedSlots(ht)) <
                (CASE workload = "mixed" -> MaxTomb
                   [] workload = "churn" -> MaxChurn
                   [] OTHER              -> 0)
       ELSE Cardinality(OccupiedSlots(ht)) - ht.count <
                (CASE workload = "bulk" -> MaxDrift
                   [] OTHER             -> 0)

Insert(k, v) ==
    /\ pc = "ready"
    /\ InsertInput(k, v)
    /\ LET r == ht_insert(ht, k, v)
       IN  /\ ht' = r.t
           /\ pc' \in Outcomes(r)
    /\ last' = [op |-> "insert", key |-> k, value |-> v,
                present |-> Present(ht, k), pre_size |-> ht.size]
    /\ UNCHANGED <<workload, call>>

Delete(k) ==
    /\ pc = "ready"
    /\ DeleteInput(k)
    /\ LET r == ht_delete(ht, k)
       IN  /\ ht' = r.t
           /\ pc' \in Outcomes(r)
    /\ last' = [op |-> "delete", key |-> k, value |-> "",
                present |-> Present(ht, k), pre_size |-> ht.size]
    /\ UNCHANGED <<workload, call>>

Search(k) ==
    /\ pc = "ready"
    /\ \/ k = Cat /\ workload # "bulk"
       \/ k = Ig
       \/ k = Rot /\ workload = "churn"
    /\ LET r == ht_search(ht, k)
       IN  /\ pc' = IF r.st = "hang" THEN "hung" ELSE "ready"
           /\ last' = [op |-> "search", key |-> k, value |-> r.value,
                       present |-> Present(ht, k), pre_size |-> ht.size]
    /\ UNCHANGED <<ht, workload, call>>

\* ht_del_hash_table(ht): the driver releases the table and stops
Destroy ==
    /\ pc = "ready"
    /\ LET freed == ht_del_hash_table(ht)
       IN  pc' \in IF \E i \in DOMAIN freed : freed[i] = "UB"
                   THEN {"freed", "crashed"}
                   ELSE {"freed"}
    /\ last' = [op |-> "del_hash_table", key |-> <<>>, value |-> "",
                present |-> FALSE, pre_size |-> ht.size]
    /\ UNCHANGED <<ht, workload, call>>

Next ==
    \/ \E k \in FreeKeys \cup {Rot} \cup NextFill(ht), v \in Values :
          Insert(k, v)
    \/ \E k \in FreeKeys \cup {Rot} : Delete(k)
    \/ \E k \in FreeKeys \cup {Rot} : Search(k)
    \/ Destroy

Spec == Init /\ [][Next]_vars

TypeOK ==
    /\ pc \in {"ready", "freed", "hung", "crashed"}
    /\ ht.size > 0
    /\ DOMAIN ht.items = Slots(ht)

\* ------------------------------------------------------------------------
\* FnSpec: the pure functions, each followed on inputs drawn from bounded
\* sets: the loop of ht_hash, the probe sequence of ht_get_hash and the
\* loop of next_prime
\* ------------------------------------------------------------------------
\* the longest string that is hashed
MaxHashLen == 10
\* the largest number of buckets whose probe sequences are followed
MaxProbeBuckets == 7
\* the largest argument of next_prime
MaxPrimeArg == 120

\* "hashtables_in_c"
HashText == <<104, 97, 115, 104, 116, 97, 98, 108, 101, 115, 95, 105, 110,
              95, 99>>
HashStrings == {SubSeq(HashText, 1, n) : n \in 0..MaxHashLen} \cup {Cat}
HashPrimes == {HT_PRIME_1, HT_PRIME_2}
HashBuckets == {53, 101, 211}

HashCalls ==
    {[fn |-> "ht_hash", s |-> s, a |-> a, m |-> m, i |-> 0, hash |-> 0] :
        s \in HashStrings, a \in HashPrimes, m \in HashBuckets}

ProbeCalls ==
    UNION {{[fn |-> "ht_get_hash", num_buckets |-> m,
             h |-> [hash_a |-> x, hash_b |-> y],
             attempt |-> 0, visited |-> {}] : x \in 0..(m - 1), y \in 0..(m - 1)} :
           m \in {n \in 2..MaxProbeBuckets : is_prime(n) = 1}}

PrimeCalls ==
    {[fn |-> "next_prime", arg |-> x, x |-> x, returned |-> FALSE] :
        x \in (-3)..MaxPrimeArg}

FnInit ==
    /\ ht = ht_new
    /\ pc = "ready"
    /\ last = [op |-> "new", key |-> <<>>, value |-> "", present |-> FALSE,
               pre_size |-> ht_new.size]
    /\ workload = "mixed"
    /\ call \in HashCalls \cup ProbeCalls \cup PrimeCalls

\* one iteration of the loop of ht_hash
HashStep ==
    /\ call.fn = "ht_hash"
    /\ call.i < Len(call.s)
    /\ \E h \in ht_hash_step(call.hash, call.a, Len(call.s) - (call.i + 1),
                              call.s[call.i + 1], call.m) :
           call' = [call EXCEPT !.i = @ + 1, !.hash = h]
    /\ UNCHANGED <<ht, pc, last, workload>>

\* ht_get_hash for the next attempt, as the probe loops call it
ProbeStep ==
    /\ call.fn = "ht_get_hash"
    /\ call.attempt < call.num_buckets
    /\ call' = [call EXCEPT
                   !.visited = @ \cup {probe_index(call.h, call.num_buckets,
                                                   call.attempt)},
                   !.attempt = @ + 1]
    /\ UNCHANGED <<ht, pc, last, workload>>

\* while (is_prime(x) != 1) { x++; } return x;
PrimeStep ==
    /\ call.fn = "next_prime"
    /\ ~call.returned
    /\ call' = IF is_prime(call.x) # 1
               THEN [call EXCEPT !.x = @ + 1]
               ELSE [call EXCEPT !.returned = TRUE]
    /\ UNCHANGED <<ht, pc, last, workload>>

FnNext == HashStep \/ ProbeStep \/ PrimeStep

FnSpec == FnInit /\ [][FnNext]_vars

\* ------------------------------------------------------------------------
\* Helpers of the properties
\* ------------------------------------------------------------------------
Returned == pc = "ready"
Found(v) == [st |-> "ok", value |-> v]
SlotOf(t, k) == CHOOSE i \in OccupiedSlots(t) : t.items[i].key = k

\* a tombstone lies on k's probe sequence before the slot that holds k
TombBefore(t, k) ==
    /\ DeletedSlots(t) # {}
    /\ LET h    == key_hashes(k, t.size)
           slot == SlotOf(t, k)
       IN  \E a \in Slots(t) :
               /\ t.items[probe_index(h, t.size, a)] = HT_DELETED_ITEM
               /\ \A b \in 0..a : probe_index(h, t.size, b) # slot

\* the key-to-value mapping of the occupied buckets
Mapping(t) == {<<t.items[i].key, t.items[i].value>> : i \in OccupiedSlots(t)}

\* const int load = ht->count * 100 / ht->size;
Load(t) == CDiv(t.count * 100, t.size)

\* the base sizes that ht_insert (load > 70) and ht_delete (load < 10)
\* pass to ht_resize when they are called on t
ResizeRequests(t) ==
    (IF Load(t) > 70 THEN {t.base_size * 2} ELSE {})
        \cup (IF Load(t) < 10 THEN {t.base_size \div 2} ELSE {})

IsPrimeNumber(n) == n >= 2 /\ \A d \in 2..(n - 1) : n % d # 0

\* ------------------------------------------------------------------------
\* C1: round trip.  Immediately after insert(t, k, v) returns, also when it
\* resized the table up, search(t, k) returns v.
\* ------------------------------------------------------------------------
C1_RoundTrip ==
    (Returned /\ last.op = "insert") =>
        ht_search(ht, last.key) = Found(last.value)

\* an insert that resized the table up has returned
C1_Witness ==
    /\ Returned /\ last.op = "insert"
    /\ ht.size > last.pre_size
    /\ ht_search(ht, last.key) = Found(last.value)

\* ------------------------------------------------------------------------
\* C2: update semantics.  An insert of a key that is present makes search
\* return the new value and leaves count as it was before that insert.
\* ------------------------------------------------------------------------
C2_Update ==
    [][(last'.op = "insert" /\ last'.present /\ pc' = "ready") =>
          /\ ht_search(ht', last'.key) = Found(last'.value)
          /\ ht'.count = ht.count]_vars

\* ------------------------------------------------------------------------
\* C3: delete removes visibility.  After delete(t, k) of a present key
\* returns, search(t, k) returns NULL.
\* ------------------------------------------------------------------------
C3_DeleteRemoves ==
    (Returned /\ last.op = "delete" /\ last.present) =>
        ht_search(ht, last.key) = Found(NotFound)

\* a delete of a present key has returned
C3_Witness ==
    /\ Returned /\ last.op = "delete" /\ last.present
    /\ DeletedSlots(ht) # {}

\* ------------------------------------------------------------------------
\* C4: deleting an absent key is a no-op.  delete(t, k) of a key that is
\* not present leaves count and the result of every search unchanged.
\* ------------------------------------------------------------------------
C4_DeleteAbsentNoOp ==
    [][(last'.op = "delete" /\ ~last'.present /\ pc' = "ready") =>
          /\ ht'.count = ht.count
          /\ \A k \in AllKeys : ht_search(ht', k) = ht_search(ht, k)]_vars

\* ------------------------------------------------------------------------
\* C5: tombstone transparency.  A key whose probe sequence passes a
\* tombstone before its own slot is still found, with its value: the search
\* does not stop at the tombstone.
\* ------------------------------------------------------------------------
C5_TombstoneTransparent ==
    Returned =>
        \A k \in KeysIn(ht) :
            TombBefore(ht, k) =>
                ht_search(ht, k) = Found(ht.items[SlotOf(ht, k)].value)

\* a delete has just left a tombstone in front of a key that is present
C5_Witness ==
    /\ Returned /\ last.op = "delete" /\ last.present
    /\ \E k \in KeysIn(ht) : TombBefore(ht, k)

C7_PrimeSize == IsPrimeNumber(ht.size) /\ ht.size >= 53

\* a delete has resized the table down from 101 to 53 buckets
C7_Witness ==
    /\ Returned /\ last.op = "delete"
    /\ last.pre_size = 101 /\ ht.size = 53

\* ------------------------------------------------------------------------
\* C8: load-factor upper bound.  After every insert that returns,
\* count * 100 / size <= 71, so the table is never fully occupied.
\* ------------------------------------------------------------------------
C8_LoadBound ==
    (Returned /\ last.op = "insert") =>
        /\ CDiv(ht.count * 100, ht.size) <= 71
        /\ Cardinality(OccupiedSlots(ht)) < ht.size

C10_Total == pc # "hung"

C12_CountAccurate ==
    Returned =>
        /\ ht.count = Cardinality(OccupiedSlots(ht))
        /\ 0 <= ht.count /\ ht.count <= ht.size

\* ------------------------------------------------------------------------
\* C13: an empty bucket always exists.  After any sequence of inserts and
\* deletes the occupied and the deleted buckets never fill the table.
\* ------------------------------------------------------------------------
C13_EmptySlotExists == Returned => EmptySlots(ht) # {}

\* ------------------------------------------------------------------------
\* C15: resize preserves the mapping and purges tombstones.  Every resize
\* to a base size of at least 50 leaves the key-to-value mapping and count
\* as they were, makes size next_prime(new base size) and leaves no deleted
\* bucket.
\* ------------------------------------------------------------------------
C15_ResizePreserves ==
    Returned =>
        \A b \in ResizeRequests(ht) :
            b >= 50 =>
                LET r == ht_resize(ht, b)
                IN  r.st = "ok" =>
                        /\ Mapping(r.t) = Mapping(ht)
                        /\ r.t.count = ht.count
                        /\ r.t.size = next_prime(b)
                        /\ DeletedSlots(r.t) = {}

\* ------------------------------------------------------------------------
\* C16: a resize below the floor is ignored.  A resize to a base size
\* below 50, as the resize-down that delete asks for at base_size 50,
\* returns without an error and leaves base_size, size, count and every
\* bucket as they were.
\* ------------------------------------------------------------------------
C16_FloorIgnored ==
    [][(last'.op = "delete" /\ pc' = "ready"
        /\ ht.base_size = 50 /\ Load(ht) < 10) =>
          /\ \A b \in 0..49 : ht_resize(ht, b) = Ok(ht)
          /\ ht_resize_down(ht) = Ok(ht)
          /\ ht'.base_size = ht.base_size /\ ht'.size = ht.size
          /\ \A i \in Slots(ht) :
                \/ ht'.items[i] = ht.items[i]
                \/ /\ key_match(ht.items[i], last'.key)
                   /\ ht'.items[i] = HT_DELETED_ITEM]_vars

\* a delete called at base_size 50 with a load below 10 has returned, and
\* the table still holds items
C16_Witness ==
    /\ Returned /\ last.op = "delete"
    /\ ht.base_size = 50 /\ last.pre_size = 53
    /\ ht.count <= 4
    /\ OccupiedSlots(ht) # {}

C18_SafeRelease ==
    [][/\ pc' # "crashed"
       /\ last'.op = "del_hash_table" =>
             LET freed == ht_del_hash_table(ht)
             IN  /\ DOMAIN freed = OccupiedSlots(ht)
                 /\ \A i \in DOMAIN freed : freed[i] = "freed"]_vars

\* ------------------------------------------------------------------------
\* C14: the probe sequence is a permutation.  For a prime number of
\* buckets m and hash_a, hash_b in 0 .. m-1 (hash_b = m - 1 included) the
\* step hash_b + 1 is not 0 modulo m, and the indices of the attempts
\* 0 .. m-1 are m different buckets: all of them.
\* ------------------------------------------------------------------------
C14_ProbePermutation ==
    call.fn = "ht_get_hash" =>
        /\ (call.h.hash_b + 1) % call.num_buckets # 0
        /\ call.attempt = call.num_buckets =>
              call.visited = 0..(call.num_buckets - 1)

\* ------------------------------------------------------------------------
\* C19: primitive hash.  For an ASCII string s, a prime a > 128 and m > 0
\* buckets, ht_hash(s, a, m) is the sum of a^(len - (i+1)) * s[i] modulo m
\* and lies in 0 .. m-1; ht_hash("cat", 151, 53) = 5.
\* ------------------------------------------------------------------------
RECURSIVE PowMod(_, _, _)
PowMod(a, e, m) == IF e = 0 THEN 1 % m ELSE (PowMod(a, e - 1, m) * (a % m)) % m

RECURSIVE SumMod(_, _, _, _)
SumMod(s, a, m, i) ==
    IF i >= Len(s) THEN 0
    ELSE (PowMod(a, Len(s) - (i + 1), m) * (s[i + 1] % m)
            + SumMod(s, a, m, i + 1)) % m

C19_PrimitiveHash ==
    (call.fn = "ht_hash" /\ call.i = Len(call.s)) =>
        /\ call.hash = SumMod(call.s, call.a, call.m, 0)
        /\ 0 <= call.hash /\ call.hash < call.m
        /\ (call.s = Cat /\ call.a = 151 /\ call.m = 53) => call.hash = 5

\* for the strings of at most four characters the loop that FnSpec follows
\* returns what ht_hash returns
ShortHashAgrees ==
    (call.fn = "ht_hash" /\ call.i = Len(call.s) /\ Len(call.s) <= 4) =>
        call.hash = ht_hash(call.s, call.a, call.m)

\* ------------------------------------------------------------------------
\* C20: next_prime(x) is the smallest prime p >= x: x itself when x is
\* prime, 2 when x < 2; is_prime is 1 for a prime, 0 for a composite number
\* and -1 for x < 2.
\* ------------------------------------------------------------------------
C20_NextPrime ==
    call.fn = "next_prime" =>
        /\ is_prime(call.x) = (IF call.x < 2 THEN -1
                               ELSE IF IsPrimeNumber(call.x) THEN 1 ELSE 0)
        /\ call.returned =>
              /\ IsPrimeNumber(call.x) /\ call.x >= call.arg
              /\ \A p \in call.arg..(call.x - 1) : ~IsPrimeNumber(p)
              /\ IsPrimeNumber(call.arg) => call.x = call.arg
              /\ call.arg < 2 => call.x = 2
              /\ next_prime(call.arg) = call.x

\* next_prime has returned after scanning over the composites 114 .. 126
C20_Witness ==
    /\ call.fn = "next_prime" /\ call.returned
    /\ call.arg = 114 /\ call.x = 127

====
